---- MODULE Spec2Model ----
(***************************************************************************)
(* A model of the streaming tool-call orchestration of pymol-ai-assistant. *)
(*                                                                         *)
(* Part I   AIChatWindow (src/ai_chat_gui.py): the GUI thread's handlers   *)
(*          (send_message, stop_streaming, clear_chat, the queued slots    *)
(*          _finish_stream and _handle_stream_error) and the worker        *)
(*          threads running _stream_ai_response.                           *)
(* Part II  AIAssistantDialog and ChatWidget (src/main.py), the            *)
(*          AIStreamWorker thread and the AIClient.chat_stream it runs     *)
(*          (src/ai_client.py).                                            *)
(***************************************************************************)
EXTENDS Integers, Sequences, FiniteSets, TLC

VARIABLES
    chat_history,    \* AIChatWindow.chat_history: the list of message dicts
    is_streaming,    \* AIChatWindow.is_streaming
    current_config,  \* AIChatWindow.current_config is not None
    threads,         \* the _run_ai_stream threads started so far, one record each;
                     \* the last one is AIChatWindow.ai_thread
    queue,           \* Qt's queue of QueuedConnection invocations of the slots that
                     \* change the window's state (_finish_stream, _handle_stream_error)
    env,             \* what the user, the provider and the executor may still do
    chat_widget,     \* ChatWidget: messages (role and the widget's raw_content),
                     \* current_message_widget, is_thinking, is_streaming
    workers,         \* the AIStreamWorker threads created so far, one record each;
                     \* the last one is AIAssistantDialog.worker
    signals          \* the workers' signals queued for the dialog's slots

window == <<chat_history, is_streaming, current_config, threads, queue>>
dialog == <<chat_widget, workers, signals>>
vars == <<chat_history, is_streaming, current_config, threads, queue, env,
          chat_widget, workers, signals>>

-----------------------------------------------------------------------------
(* Bounds of the model and constants of the program. *)

\* user turns (send_message calls that start a thread) in one behaviour of Spec
MaxTurns == 2
\* stop_streaming calls that find is_streaming set
MaxStops == 1
\* clear_chat calls
MaxClears == 1
\* requests the provider answers, over all turns, in one behaviour of Spec
MaxRequests == 2
\* max_iterations of _stream_ai_response
max_iterations == 10

-----------------------------------------------------------------------------
(* Text.  Python strings are TLA+ strings; "" is the falsy empty string. *)

\* json.loads(args_str) succeeds: over the fragments the provider sends here
\* ("{", "k", ",", "}"), the texts that are JSON are the objects "{}", "{k}" and
\* "{k,k}", where k stands for one member.
JsonParses(s) == s \in {"{}", "{k}", "{k,k}"}

\* The id the provider gives the tool call at `index` of the response to request
\* `iteration` of thread `t`: providers issue one fresh id per call.  0 is the
\* absent id (None or "").
NoId == 0
MkId(t, iteration, index) == (t * 100 + iteration) * 10 + index + 1

-----------------------------------------------------------------------------
(* The provider's answers: each a sequence of deltas as chunk.choices[0].delta  *)
(* presents them; the id field is filled in when the request is answered.      *)

Delta(c, r, tcs) == [content |-> c, reasoning_content |-> r, tool_calls |-> tcs]
TcDelta(i, hasid, n, a) == [index |-> i, id |-> hasid, name |-> n, arguments |-> a]

Scripts ==
    [ plain    |-> << Delta("a", "", <<>>), Delta("b", "", <<>>) >>,
      tool     |-> << Delta("", "r", <<>>),
                      Delta("", "", << TcDelta(0, TRUE, "show", "{") >>),
                      Delta("", "", << TcDelta(0, FALSE, "", "}") >>) >>,
      badjson  |-> << Delta("c", "", << TcDelta(0, TRUE, "show", "{") >>) >>,
      mixed    |-> << Delta("", "", << TcDelta(0, TRUE, "show", "{k"),
                                       TcDelta(1, TRUE, "hide", "{}") >>) >>,
      gap      |-> << Delta("", "", << TcDelta(1, TRUE, "zoom", "{}") >>) >>,
      call     |-> << Delta("", "", << TcDelta(0, TRUE, "show", "{}") >>) >>,
      two      |-> << Delta("", "", << TcDelta(0, TRUE, "show", "{}"),
                                       TcDelta(1, TRUE, "hide", "{k}") >>) >>,
      splitname |-> << Delta("", "", << TcDelta(0, TRUE, "sh", "{") >>),
                       Delta("", "", << TcDelta(0, FALSE, "ow", "}") >>) >>,
      reversed |-> << Delta("c", "r", << TcDelta(1, TRUE, "hide", "{}") >>),
                      Delta("", "", << TcDelta(0, TRUE, "show", "{}") >>) >>,
      unfinished |-> << Delta("c", "", << TcDelta(0, TRUE, "show", "") >>) >>,
      split5   |-> << Delta("", "", << TcDelta(0, TRUE, "show", "{") >>),
                      Delta("", "", << TcDelta(0, FALSE, "", "k") >>),
                      Delta("", "", << TcDelta(0, FALSE, "", ",") >>),
                      Delta("", "", << TcDelta(0, FALSE, "", "k") >>),
                      Delta("", "", << TcDelta(0, FALSE, "", "}") >>) >>,
      text     |-> << Delta("a", "", <<>>) >>,
      silent   |-> << >> ]

ScriptNames == DOMAIN Scripts

\* the deltas of script `s` as the provider sends them for request `iteration` of `t`
Instantiate(s, t, iteration) ==
    LET WithId(tc) == [ tc EXCEPT !.id = IF tc.id THEN MkId(t, iteration, tc.index) ELSE NoId ]
        Fill(delta) == [ delta EXCEPT !.tool_calls =
                           [ j \in 1..Len(delta.tool_calls) |-> WithId(delta.tool_calls[j]) ] ]
    IN  [ d \in 1..Len(Scripts[s]) |-> Fill(Scripts[s][d]) ]

\* what execute_tool may do with a call: return success, return failure, raise
ExecOutcomes == {"ok", "fail", "raise"}

-----------------------------------------------------------------------------
(* The state after AIChatWindow.__init__.  *)

NewThread ==
    [ pc |-> "start", iteration |-> 0, stream |-> <<>>,
      full_content |-> "", full_reasoning |-> "",
      tool_calls_data |-> <<>>, tool_calls_for_history |-> <<>>, k |-> 0,
      \* history variables: what this thread has done so far
      messages |-> <<>>,
      nreq |-> 0, execlog |-> <<>>, sink |-> <<>>, appended |-> <<>>, round_start |-> 0,
      sink_start |-> 0, served |-> <<>>, trace |-> <<>>, trace_start |-> 0,
      stopped |-> "no", exit |-> "" ]

InitWindow ==
    /\ chat_history = <<>>
    /\ is_streaming = FALSE
    /\ current_config \in BOOLEAN
    /\ threads = <<>>
    /\ queue = <<>>

\* The environments a behaviour may run in.  Each fixes what the user, the
\* provider and the executor may do, so that the state space is the sum of
\* theirs and not the product.
\*   EnvUser      several turns and stops against a provider that answers with
\*                one tool call or with text
\*   EnvProvider  one turn against a provider that may answer with any script or
\*                refuse, and an executor that may succeed, fail or raise
\*   EnvLimit     one turn, long enough to reach max_iterations, with clear_chat
\*   EnvScenario  one turn against a provider that answers with a tool call whose
\*                argument text comes in five pieces, or with text
\*   EnvBare      the openai package is not installed
Env(kind, tu, st, cl, rq, sc, oc, rf, oa) ==
    [ kind |-> kind, turns |-> tu, stops |-> st, clears |-> cl, requests |-> rq, scripts |-> sc,
      outcomes |-> oc, refuses |-> rf, openai |-> oa ]

EnvUser     == Env("user", MaxTurns, MaxStops, 0, MaxRequests, {"call", "text"}, {"ok"}, FALSE, TRUE)
EnvProvider == Env("provider", 1, 1, 0, MaxRequests, ScriptNames \ {"split5"}, ExecOutcomes, TRUE, TRUE)
EnvLimit    == Env("limit", 1, 1, MaxClears, max_iterations + 1, {"call", "text"}, {"ok"}, FALSE, TRUE)
EnvScenario == Env("scenario", 1, 0, 0, MaxRequests, {"split5", "text"}, {"ok"}, FALSE, TRUE)
EnvBare     == Env("bare", MaxTurns, MaxStops, MaxClears, MaxRequests, {"text"}, {"ok"}, FALSE, FALSE)

\* The state after AIAssistantDialog.__init__.
InitDialog ==
    /\ chat_widget = [ messages |-> <<>>, current_message_widget |-> 0,
                       is_thinking |-> FALSE, is_streaming |-> FALSE ]
    /\ workers = <<>>
    /\ signals = <<>>

Init ==
    /\ InitWindow
    /\ InitDialog
    /\ env \in {EnvUser, EnvProvider, EnvLimit, EnvScenario, EnvBare}

-----------------------------------------------------------------------------
(* Events handed to the window with QueuedConnection.  The display slots      *)
(* (_update_stream_content, _update_tool_call, _update_tool_result) change    *)
(* only widgets: each thread's `sink` records them in the order it posted     *)
(* them.  _finish_stream and _handle_stream_error change is_streaming: they   *)
(* are also put on `queue` and run when the GUI thread takes them.            *)

Ev(e, n, x, ok) == [ev |-> e, name |-> n, text |-> x, success |-> ok]
Invocation(slot, t) == [slot |-> slot, thread |-> t]

\* _on_stream_content(content, is_thinking)
OnStreamContent(th, text, is_thinking) ==
    [ th EXCEPT !.sink = Append(@, Ev(IF is_thinking THEN "thinking" ELSE "content", "", text, TRUE)) ]
\* _on_tool_call(tool_name, args)
OnToolCall(th, name) == [ th EXCEPT !.sink = Append(@, Ev("tool_call", name, "", TRUE)) ]
\* _on_tool_result(tool_name, result)
OnToolResult(th, name, result) ==
    [ th EXCEPT !.sink = Append(@, Ev("tool_result", name, result.message, result.success)) ]
\* _on_stream_complete(): the event of every completed turn
OnStreamComplete(th) == [ th EXCEPT !.sink = Append(@, Ev("stream_complete", "", "", TRUE)) ]
\* _on_stream_error(error)
OnStreamError(th) == [ th EXCEPT !.sink = Append(@, Ev("stream_error", "", "", FALSE)) ]

\* `trace` keeps, as a history variable, the order of the thread's executor
\* invocations, tool-result events and appends
Logged(th, op, id) == [ th EXCEPT !.trace = Append(@, [op |-> op, id |-> id]) ]

-----------------------------------------------------------------------------
(* The GUI thread's handlers. *)

\* send_message and the start_streaming_response it ends with
send_message(message) ==
    /\ ~is_streaming
    /\ message # ""
    /\ current_config
    /\ env.turns > 0
    /\ chat_history' = Append(chat_history, [role |-> "user", content |-> message])
    /\ is_streaming' = TRUE
    /\ threads' = Append(threads, NewThread)
    /\ env' = [env EXCEPT !.turns = @ - 1]
    /\ UNCHANGED <<current_config, queue, dialog>>

\* History variable: the turn a stop signal is given for is the one of ai_thread;
\* `stopped` keeps where its loop was: consuming a stream, dispatching, or between
\* rounds.
MarkStopped(th) ==
    IF th.stopped = "no" /\ th.pc # "done"
    THEN [ th EXCEPT !.stopped = IF th.pc \in {"stream", "dispatch"} THEN th.pc ELSE "between" ]
    ELSE th

stop_streaming ==
    /\ is_streaming
    /\ env.stops > 0
    /\ is_streaming' = FALSE
    /\ threads' = IF threads = <<>> THEN threads
                  ELSE [threads EXCEPT ![Len(threads)] = MarkStopped(@)]
    /\ env' = [env EXCEPT !.stops = @ - 1]
    /\ UNCHANGED <<chat_history, current_config, queue, dialog>>

clear_chat ==
    /\ env.clears > 0
    /\ chat_history' = <<>>
    /\ env' = [env EXCEPT !.clears = @ - 1]
    /\ UNCHANGED <<is_streaming, current_config, threads, queue, dialog>>

\* open_config_dialog accepted: load_default_config finds a default config
load_default_config ==
    /\ ~current_config
    /\ current_config' = TRUE
    /\ UNCHANGED <<chat_history, is_streaming, threads, queue, env, dialog>>

_finish_stream ==
    /\ queue # <<>>
    /\ Head(queue).slot = "_finish_stream"
    /\ queue' = Tail(queue)
    /\ is_streaming' = FALSE
    /\ UNCHANGED <<chat_history, current_config, threads, env, dialog>>

_handle_stream_error ==
    /\ queue # <<>>
    /\ Head(queue).slot = "_handle_stream_error"
    /\ queue' = Tail(queue)
    /\ is_streaming' = FALSE
    /\ UNCHANGED <<chat_history, current_config, threads, env, dialog>>

-----------------------------------------------------------------------------
(* The worker thread: _run_ai_stream and the _stream_ai_response it runs. *)

\* chat_history.append(msg) by the thread; `appended` keeps, as a history
\* variable, every message the thread has appended in its turn
Appended(th, msg) ==
    Logged([ th EXCEPT !.appended = Append(@, msg) ], "append_" \o msg.role,
           IF msg.role = "tool" THEN msg.tool_call_id ELSE NoId)

\* the messages thread record `th` has appended beyond those of `before`
NewlyAppended(before, th) == SubSeq(th.appended, Len(before.appended) + 1, Len(th.appended))

\* this thread's step: its record becomes `th`, the stored messages become
\* `stored` followed by the messages it appended, `q` is what it leaves on the
\* window's queue
StepFrom(stored, t, th, q) ==
    /\ threads' = [threads EXCEPT ![t] = th]
    /\ chat_history' = stored \o NewlyAppended(threads[t], th)
    /\ queue' = q
    /\ UNCHANGED <<is_streaming, current_config, dialog>>

\* a step that writes to no stored message
Step(t, th, q) == StepFrom(chat_history, t, th, q)

\* a completion that posts its event and queues nothing for the window
CompleteSilent(t, th, why) ==
    Step(t, [ OnStreamComplete(th) EXCEPT !.pc = "done", !.exit = why ], queue)

\* _on_stream_complete(), after which the thread only logs and ends
Complete(t, th, why) ==
    Step(t, [ OnStreamComplete(th) EXCEPT !.pc = "done", !.exit = why ],
         Append(queue, Invocation("_finish_stream", t)))

\* _on_stream_error(str(e)), after which the thread ends
FailFrom(stored, t, th, why) ==
    StepFrom(stored, t, [ OnStreamError(th) EXCEPT !.pc = "done", !.exit = why ],
             Append(queue, Invocation("_handle_stream_error", t)))

Fail(t, th, why) == FailFrom(chat_history, t, th, why)

\* the import of openai and the check of current_config
ThreadStart(t) ==
    /\ threads[t].pc = "start"
    /\ IF ~env.openai THEN Fail(t, threads[t], "no_openai")
       ELSE IF ~current_config THEN Fail(t, threads[t], "no_config")
       ELSE Step(t, [ threads[t] EXCEPT !.pc = "loop" ], queue)
    /\ UNCHANGED env

\* the loop condition with the bound off by one
LoopGuardInclusive(iteration) == iteration <= max_iterations

\* while iteration < max_iterations
LoopGuard(iteration) == iteration < max_iterations

\* the copy of one stored message that goes into the request
Normalize(msg) ==
    IF msg.role = "assistant"
    THEN LET m1 == IF "reasoning_content" \notin DOMAIN msg
                   THEN [ f \in DOMAIN msg \cup {"reasoning_content"} |->
                            IF f = "reasoning_content" THEN "" ELSE msg[f] ]
                   ELSE msg
         IN  IF "content" \notin DOMAIN m1 /\ "tool_calls" \in DOMAIN m1
             THEN [ f \in DOMAIN m1 \cup {"content"} |-> IF f = "content" THEN "" ELSE m1[f] ]
             ELSE m1
    ELSE msg

\* a loop body that works on the stored message itself (new_msg = msg)
PreparedInPlace(msg) == [ stored |-> Normalize(msg), sent |-> Normalize(msg) ]

\* new_msg = copy.deepcopy(msg), completed and appended to messages: the stored
\* message as the loop body leaves it, and the message sent
Prepared(msg) == [ stored |-> msg, sent |-> Normalize(msg) ]

\* the messages of a request: the system prompt, then the copies
BuildMessages(hist) ==
    << [role |-> "system", content |-> "system_prompt"] >>
        \o [ i \in 1..Len(hist) |-> Prepared(hist[i]).sent ]

\* a build that drops the oldest stored message of a long history
AfterBuildTrimmed(hist) == IF Len(hist) > 2 THEN Tail(hist) ELSE hist

\* the stored messages after the request's messages were built from them
AfterBuild(hist) == [ i \in 1..Len(hist) |-> Prepared(hist[i]).stored ]

\* the loop condition fails: the turn is over
LoopExit(t) ==
    /\ threads[t].pc = "loop"
    /\ ~LoopGuard(threads[t].iteration)
    /\ Complete(t, threads[t], "limit")
    /\ UNCHANGED env

\* the state of a round whose request was sent
Requested(th) ==
    [ th EXCEPT !.iteration = @ + 1, !.nreq = @ + 1,
                !.messages = BuildMessages(chat_history),
                !.round_start = Len(th.appended),
                !.sink_start = Len(th.sink),
                !.trace_start = Len(th.trace) ]

\* a round that starts with the content of the rounds before it
FreshRoundKeepsContent(th) == [ th EXCEPT !.full_reasoning = "", !.tool_calls_data = <<>> ]

\* full_content = "", full_reasoning = "", tool_calls_data = []
FreshRound(th) ==
    [ th EXCEPT !.full_content = "", !.full_reasoning = "", !.tool_calls_data = <<>> ]

\* client.chat.completions.create returns a stream
RequestOk(t, s) ==
    /\ threads[t].pc = "loop"
    /\ LoopGuard(threads[t].iteration)
    /\ env.requests > 0
    /\ s \in env.scripts
    /\ StepFrom(AfterBuild(chat_history), t,
            [ FreshRound(Requested(threads[t])) EXCEPT
                   !.pc = "stream",
                   !.served = Append(@, s),
                   !.stream = Instantiate(s, t, threads[t].iteration + 1) ],
            queue)
    /\ env' = [env EXCEPT !.requests = @ - 1]

\* client.chat.completions.create raises (connection error, non-2xx status)
RequestFails(t) ==
    /\ threads[t].pc = "loop"
    /\ LoopGuard(threads[t].iteration)
    /\ env.requests > 0
    /\ env.refuses
    /\ FailFrom(AfterBuild(chat_history), t, Requested(threads[t]), "request_failed")
    /\ env' = [env EXCEPT !.requests = @ - 1]

\* while len(tool_calls_data) <= index: append an empty entry
PadTo(data, index) ==
    [ i \in 1..(IF Len(data) > index THEN Len(data) ELSE index + 1) |->
        IF i <= Len(data) THEN data[i] ELSE [id |-> NoId, name |-> "", arguments |-> ""] ]

\* an accumulation that keeps only the last piece of the argument text
IngestOneAssign(data, tc) ==
    LET padded == PadTo(data, tc.index)
        i == tc.index + 1
    IN  [ padded EXCEPT ![i] =
            [ id        |-> IF tc.id # NoId THEN tc.id ELSE @.id,
              name      |-> IF tc.name # "" THEN tc.name ELSE @.name,
              arguments |-> IF tc.arguments # "" THEN tc.arguments ELSE @.arguments ] ]

\* one tc of delta.tool_calls
IngestOne(data, tc) ==
    LET padded == PadTo(data, tc.index)
        i == tc.index + 1
    IN  [ padded EXCEPT ![i] =
            [ id        |-> IF tc.id # NoId THEN tc.id ELSE @.id,
              name      |-> IF tc.name # "" THEN tc.name ELSE @.name,
              arguments |-> IF tc.arguments # "" THEN @.arguments \o tc.arguments
                            ELSE @.arguments ] ]

\* for tc in delta.tool_calls
RECURSIVE Ingest(_, _)
Ingest(data, tcs) ==
    IF tcs = <<>> THEN data ELSE Ingest(IngestOne(data, Head(tcs)), Tail(tcs))

\* one chunk of the response
ConsumeDelta(th, delta) ==
    LET c == IF delta.content # ""
             THEN [ OnStreamContent(th, delta.content, FALSE)
                      EXCEPT !.full_content = @ \o delta.content ]
             ELSE th
        r == IF delta.reasoning_content # ""
             THEN [ OnStreamContent(c, delta.reasoning_content, TRUE)
                      EXCEPT !.full_reasoning = @ \o delta.reasoning_content ]
             ELSE c
    IN  [ r EXCEPT !.tool_calls_data = Ingest(@, delta.tool_calls),
                   !.stream = Tail(@) ]

StreamDelta(t) ==
    /\ threads[t].pc = "stream"
    /\ threads[t].stream # <<>>
    /\ Step(t, ConsumeDelta(threads[t], Head(threads[t].stream)), queue)
    /\ UNCHANGED env

\* the assistant message of a round without tool calls
PlainAssistant(th) ==
    [ role |-> "assistant", content |-> th.full_content,
      reasoning_content |-> th.full_reasoning ]

\* the response is over: no tool call at all ends the turn
StreamEnd(t) ==
    LET th == threads[t] IN
    /\ th.pc = "stream"
    /\ th.stream = <<>>
    /\ IF th.tool_calls_data = <<>>
       THEN IF th.full_content # ""
            THEN Complete(t, Appended(th, PlainAssistant(th)), "no_tools")
            ELSE Complete(t, th, "no_tools")
       ELSE Step(t, [ th EXCEPT !.pc = "dispatch", !.k = 1, !.tool_calls_for_history = <<>> ],
                 queue)
    /\ UNCHANGED env

\* the entry of tool_calls_for_history for a call
HistoryEntry(tool_call) ==
    [ id |-> tool_call.id, type |-> "function",
      function |-> [ name |-> tool_call.name, arguments |-> tool_call.arguments ] ]

\* json.dumps(result): the text of a result
Dumps(result) ==
    (IF result.success THEN "{success:true,message:" ELSE "{success:false,message:")
        \o result.message \o "}"

\* the tool message of a call
ToolMessage(tool_call, result) ==
    [ role |-> "tool", tool_call_id |-> tool_call.id, content |-> Dumps(result) ]

\* what the executor's outcome leaves as the result of the call
ResultOf(outcome) ==
    CASE outcome = "ok"    -> [success |-> TRUE,  message |-> "done"]
      [] outcome = "fail"  -> [success |-> FALSE, message |-> "tool_failed"]
      [] outcome = "raise" -> [success |-> FALSE, message |-> "exception"]

\* a test of the name alone
FinalizedByName(tool_call) == tool_call.name # ""

\* if tool_call["name"] and tool_call["arguments"]
Finalized(tool_call) == tool_call.name # "" /\ tool_call.arguments # ""

\* a record that appends the tool message before it posts the event
RecordedAppendFirst(th, tool_call, result) ==
    [ Logged(OnToolResult(Appended(th, ToolMessage(tool_call, result)),
                          tool_call.name, result),
             "tool_result", tool_call.id)
        EXCEPT !.tool_calls_for_history = Append(@, HistoryEntry(tool_call)),
               !.k = @ + 1 ]

\* the thread after the call was recorded: the event, the entry and the tool
\* message
Recorded(th, tool_call, result) ==
    [ Appended(Logged(OnToolResult(th, tool_call.name, result),
                      "tool_result", tool_call.id),
               ToolMessage(tool_call, result))
        EXCEPT !.tool_calls_for_history = Append(@, HistoryEntry(tool_call)),
               !.k = @ + 1 ]

\* the entry of the execution log for one invocation of execute_tool
Invoked(tool_call, outcome) ==
    [ id |-> tool_call.id, name |-> tool_call.name, arguments |-> tool_call.arguments,
      outcome |-> outcome ]

\* a dispatch in which a raising executor ends the for loop without a record
ExecutedRaiseLost(th, tool_call, outcome) ==
    LET called == [ OnToolCall(th, tool_call.name)
                      EXCEPT !.execlog = Append(@, Invoked(tool_call, outcome)) ]
    IN  IF outcome = "raise"
        THEN [ called EXCEPT !.k = Len(th.tool_calls_data) + 1 ]
        ELSE Recorded(called, tool_call, ResultOf(outcome))

\* a dispatch that invokes the executor a second time
ExecutedTwice(th, tool_call, outcome) ==
    Recorded([ OnToolCall(th, tool_call.name)
                 EXCEPT !.execlog = Append(Append(@, Invoked(tool_call, outcome)),
                                           Invoked(tool_call, outcome)) ],
             tool_call, ResultOf(outcome))

\* json.loads succeeded: _on_tool_call, execute_tool, then the record
Executed(th, tool_call, outcome) ==
    Recorded(Logged([ OnToolCall(th, tool_call.name)
                        EXCEPT !.execlog = Append(@, Invoked(tool_call, outcome)) ],
                    "execute", tool_call.id),
             tool_call, ResultOf(outcome))

\* a handler that drops the call whose arguments do not parse
ParseFailedDropped(th, tool_call) == [ th EXCEPT !.k = @ + 1 ]

\* except json.JSONDecodeError
ParseFailed(th, tool_call) ==
    Recorded(th, tool_call, [success |-> FALSE, message |-> "parse_error"])

\* one pass of `for tool_call in tool_calls_data`
DispatchCall(t) ==
    LET th == threads[t] IN
    /\ th.pc = "dispatch"
    /\ th.k <= Len(th.tool_calls_data)
    /\ LET tool_call == th.tool_calls_data[th.k] IN
       IF ~Finalized(tool_call)
       THEN Step(t, [ th EXCEPT !.k = @ + 1 ], queue)
       ELSE IF ~JsonParses(tool_call.arguments)
       THEN Step(t, ParseFailed(th, tool_call), queue)
       ELSE \E outcome \in env.outcomes : Step(t, Executed(th, tool_call, outcome), queue)
    /\ UNCHANGED env

\* assistant_msg
ToolAssistant(th) ==
    LET base == [ role |-> "assistant", reasoning_content |-> th.full_reasoning,
                  tool_calls |-> th.tool_calls_for_history ]
    IN  IF th.full_content # ""
        THEN [ f \in DOMAIN base \cup {"content"} |->
                 IF f = "content" THEN th.full_content ELSE base[f] ]
        ELSE base

\* after the for loop: the assistant message of the round, then the next round
AppendAssistant(t) ==
    LET th == threads[t] IN
    /\ th.pc = "dispatch"
    /\ th.k > Len(th.tool_calls_data)
    /\ IF th.tool_calls_for_history # <<>>
       THEN Step(t, [ Appended(th, ToolAssistant(th)) EXCEPT !.pc = "loop" ], queue)
       ELSE Step(t, [ th EXCEPT !.pc = "loop" ], queue)
    /\ UNCHANGED env

-----------------------------------------------------------------------------
Messages == {"hi"}

Next ==
    \/ \E message \in Messages : send_message(message)
    \/ stop_streaming
    \/ clear_chat
    \/ load_default_config
    \/ _finish_stream
    \/ _handle_stream_error
    \/ \E t \in DOMAIN threads : ThreadStart(t)
    \/ \E t \in DOMAIN threads : LoopExit(t)
    \/ \E t \in DOMAIN threads, s \in ScriptNames : RequestOk(t, s)
    \/ \E t \in DOMAIN threads : RequestFails(t)
    \/ \E t \in DOMAIN threads : StreamDelta(t)
    \/ \E t \in DOMAIN threads : StreamEnd(t)
    \/ \E t \in DOMAIN threads : DispatchCall(t)
    \/ \E t \in DOMAIN threads : AppendAssistant(t)

Spec == Init /\ [][Next]_vars

-----------------------------------------------------------------------------
(* The window under fair scheduling: a started thread runs on, every request  *)
(* returns or raises, and the Qt event loop runs the queued invocations.       *)

\* client.chat.completions.create raises because the provider answers no more
RequestExhausted(t) ==
    /\ threads[t].pc = "loop"
    /\ LoopGuard(threads[t].iteration)
    /\ env.requests = 0
    /\ FailFrom(AfterBuild(chat_history), t, Requested(threads[t]), "request_failed")
    /\ UNCHANGED env

\* a step of the thread of turn t
ThreadNext(t) ==
    \/ ThreadStart(t)
    \/ LoopExit(t)
    \/ \E s \in ScriptNames : RequestOk(t, s)
    \/ RequestFails(t)
    \/ RequestExhausted(t)
    \/ StreamDelta(t)
    \/ StreamEnd(t)
    \/ DispatchCall(t)
    \/ AppendAssistant(t)

NextLive ==
    \/ Next
    \/ \E t \in DOMAIN threads : RequestExhausted(t)

\* The environments of the fair behaviours: several turns and stops against a
\* provider that answers with text; one turn against a provider that answers
\* with text or a tool call, well formed or not, or refuses, and an executor
\* that may fail or raise; the turn that reaches the round limit; the machine
\* without the openai package.
EnvTurns    == Env("turns", MaxTurns, MaxStops, 0, MaxRequests, {"text"}, {"ok"}, FALSE, TRUE)
EnvRefusing == Env("refusing", 1, 1, 0, MaxRequests, {"call", "text", "badjson"},
                   ExecOutcomes, TRUE, TRUE)

InitLive ==
    /\ InitWindow
    /\ InitDialog
    /\ env \in {EnvTurns, EnvRefusing, EnvLimit, EnvBare}

\* the operating system schedules the daemon threads; the event loop takes the
\* queued invocations in order
Fairness ==
    /\ WF_vars(\E t \in DOMAIN threads : ThreadNext(t))
    /\ WF_vars(_finish_stream)
    /\ WF_vars(_handle_stream_error)

SpecLive == InitLive /\ [][NextLive]_vars /\ Fairness

-----------------------------------------------------------------------------
(* Part II.  The responses AIClient.chat_stream reads: each a sequence of the  *)
(* lines of response.iter_lines().  A line is blank, the sentinel, a text that *)
(* json.loads rejects, or a chunk whose choices[0].delta is given.             *)

Blank == [kind |-> "blank", delta |-> Delta("", "", <<>>)]
Done == [kind |-> "done", delta |-> Delta("", "", <<>>)]
Malformed == [kind |-> "malformed", delta |-> Delta("", "", <<>>)]
Chunk(delta) == [kind |-> "chunk", delta |-> delta]

ClientScripts ==
    [ text      |-> << Chunk(Delta("a", "", <<>>)), Done >>,
      call      |-> << Chunk(Delta("", "", << TcDelta(0, TRUE, "show", "{") >>)),
                       Chunk(Delta("", "", << TcDelta(0, FALSE, "", "}") >>)), Done >>,
      badjson   |-> << Chunk(Delta("c", "", << TcDelta(0, TRUE, "show", "{") >>)), Done >>,
      two       |-> << Chunk(Delta("", "", << TcDelta(0, TRUE, "show", "{}"),
                                              TcDelta(1, TRUE, "hide", "{}") >>)), Done >>,
      splitname |-> << Chunk(Delta("", "", << TcDelta(0, TRUE, "sh", "{"),
                                              TcDelta(1, TRUE, "hi", "{") >>)),
                       Chunk(Delta("", "", << TcDelta(1, FALSE, "de", "}"),
                                              TcDelta(0, FALSE, "ow", "}") >>)), Done >>,
      afterdone |-> << Chunk(Delta("a", "r", <<>>)), Done,
                       Chunk(Delta("z", "q", << TcDelta(0, TRUE, "show", "{}") >>)) >>,
      malformed |-> << Blank, Malformed, Chunk(Delta("a", "r", <<>>)), Malformed,
                       Chunk(Delta("b", "", <<>>)), Done >> ]

ClientScriptNames == DOMAIN ClientScripts

\* the lines of script `s` as the provider sends them for request `n` of worker `w`
ClientLines(s, w, n) ==
    LET WithId(tc) == [ tc EXCEPT !.id = IF tc.id THEN MkId(w, n, tc.index) ELSE NoId ]
        Fill(line) == [ line EXCEPT !.delta.tool_calls =
                          [ j \in 1..Len(line.delta.tool_calls) |->
                              WithId(line.delta.tool_calls[j]) ] ]
    IN  [ d \in 1..Len(ClientScripts[s]) |-> Fill(ClientScripts[s][d]) ]

\* The environments of the dialog: several turns and stops; one turn against a
\* provider that may send any script or refuse; one turn whose every response
\* carries a tool call; no current configuration; an incomplete configuration.
EnvClient(kind, tu, st, rq, sc, oc, rf, cfg, reasoning) ==
    [ kind |-> kind, turns |-> tu, stops |-> st, clears |-> 0, requests |-> rq,
      scripts |-> sc, outcomes |-> oc, refuses |-> rf, openai |-> TRUE, cfg |-> cfg,
      is_reasoning_model |-> reasoning ]

EnvDialogUser     == EnvClient("user", MaxTurns, MaxStops, MaxRequests, {"call", "text"},
                               {"ok"}, FALSE, "complete", FALSE)
EnvDialogProvider == EnvClient("provider", 1, 1, MaxRequests, ClientScriptNames,
                               {"ok", "fail"}, TRUE, "complete", TRUE)
EnvDialogDeep     == EnvClient("deep", 1, 0, max_iterations + 1, {"call"},
                               {"ok"}, FALSE, "complete", FALSE)
EnvDialogNoConfig == EnvClient("bare", MaxTurns, MaxStops, MaxRequests, {"text"},
                               {"ok"}, FALSE, "none", FALSE)
EnvDialogPartial  == EnvClient("bare", MaxTurns, MaxStops, MaxRequests, {"text"},
                               {"ok"}, FALSE, "incomplete", FALSE)

InitClient ==
    /\ InitWindow
    /\ InitDialog
    /\ env \in {EnvDialogUser, EnvDialogProvider, EnvDialogDeep, EnvDialogNoConfig,
                EnvDialogPartial}

-----------------------------------------------------------------------------
(* ChatWidget. *)

\* the text on_stop_requested adds
StopMarker == "[stopped]"

\* add_message(role, content)
add_message(cw, role, content) ==
    [ cw EXCEPT !.messages = Append(@, [role |-> role, raw_content |-> content]),
                !.current_message_widget = Len(cw.messages) + 1 ]

\* start_message(role)
start_message(cw, role) == add_message(cw, role, "")

\* append_to_current(text): MessageWidget.append_content on the current widget
append_to_current(cw, text) ==
    IF cw.current_message_widget # 0
    THEN [ cw EXCEPT !.messages[cw.current_message_widget].raw_content = @ \o text ]
    ELSE cw

\* set_streaming_state(streaming)
set_streaming_state(cw, streaming) == [ cw EXCEPT !.is_streaming = streaming ]

\* get_messages_for_api()
get_messages_for_api(cw) ==
    LET kept == SelectSeq(cw.messages, LAMBDA m : m.role \in {"user", "assistant"})
    IN  [ i \in 1..Len(kept) |-> [role |-> kept[i].role, content |-> kept[i].raw_content] ]

-----------------------------------------------------------------------------
(* AIStreamWorker and the signals it emits. *)

Sig(sig, text, is_end, result) == [sig |-> sig, text |-> text, is_end |-> is_end, result |-> result]

\* AIStreamWorker(messages), started
NewWorker(msgs) ==
    [ state |-> "running", _is_running |-> TRUE, messages |-> msgs,
      \* the chat_stream call in progress
      pc |-> "check", call_messages |-> msgs, lines |-> <<>>,
      content_buffer |-> "", thinking_buffer |-> "", is_thinking |-> FALSE,
      tool_calls_buffer |-> <<>>,
      \* history variables: the requests, the executions, the last payload, the
      \* callbacks invoked, the lines of the last response and the number of
      \* callbacks invoked before it
      nreq |-> 0, execlog |-> <<>>, payload |-> <<>>,
      calls |-> <<>>, response |-> <<>>, calls_start |-> 0 ]

\* QThread.isRunning()
isRunning(wk) == wk.state \in {"running", "dying"}

\* the callbacks of run(): each emits its signal if self._is_running
Emit(wk, q, sig) == IF wk._is_running THEN Append(q, sig) ELSE q

\* history variable: chat_stream has invoked the callbacks of `sigs`
Called(wk, sigs) == [ wk EXCEPT !.calls = @ \o sigs ]

\* a step of worker w: its record becomes wk, the signal queue q
WorkerStep(w, wk, q) ==
    /\ isRunning(workers[w])
    /\ workers' = [workers EXCEPT ![w] = wk]
    /\ signals' = q
    /\ UNCHANGED <<chat_widget, window>>

-----------------------------------------------------------------------------
(* The dialog's handlers on the GUI thread. *)

\* on_message_sent(text): the worker it starts, if a current config exists
on_message_sent(cw) ==
    IF env.cfg = "none" THEN workers
    ELSE Append(workers, NewWorker(get_messages_for_api(cw)))

\* on_send_clicked while not streaming: add the user message, emit message_sent,
\* then set_streaming_state(True)
on_send_clicked(text) ==
    /\ ~chat_widget.is_streaming
    /\ text # ""
    /\ env.turns > 0
    /\ LET cw == add_message(chat_widget, "user", text) IN
       /\ workers' = on_message_sent(cw)
       /\ chat_widget' = set_streaming_state(cw, TRUE)
    /\ env' = [env EXCEPT !.turns = @ - 1]
    /\ UNCHANGED <<signals, window>>

\* AIStreamWorker.terminate(): the flag is cleared and QThread.terminate() asks
\* the system to end the thread, which happens at once or later
terminate(wk, at_once) ==
    [ wk EXCEPT !._is_running = FALSE, !.state = IF at_once THEN "terminated" ELSE "dying" ]

\* on_send_clicked while streaming emits stop_requested: on_stop_requested
on_stop_requested ==
    /\ chat_widget.is_streaming
    /\ env.stops > 0
    /\ IF workers # <<>> /\ isRunning(workers[Len(workers)])
       THEN /\ \E at_once \in BOOLEAN :
                 workers' = [workers EXCEPT ![Len(workers)] = terminate(@, at_once)]
            /\ chat_widget' = add_message(set_streaming_state(chat_widget, FALSE),
                                          "assistant", StopMarker)
       ELSE UNCHANGED <<workers, chat_widget>>
    /\ env' = [env EXCEPT !.stops = @ - 1]
    /\ UNCHANGED <<signals, window>>

\* the slot of the signal at the head of the queue runs
Deliver(sig, cw) ==
    /\ signals # <<>>
    /\ Head(signals).sig = sig
    /\ signals' = Tail(signals)
    /\ chat_widget' = cw
    /\ UNCHANGED <<workers, env, window>>

on_thinking ==
    LET text == Head(signals).text
        cw == chat_widget
    IN  Deliver("thinking",
            IF Head(signals).is_end
            THEN [ cw EXCEPT !.is_thinking = FALSE ]
            ELSE IF ~cw.is_thinking
                 THEN append_to_current(start_message([ cw EXCEPT !.is_thinking = TRUE ],
                                                      "thinking"), text)
                 ELSE append_to_current(cw, text))

on_content ==
    LET text == Head(signals).text
        cw == chat_widget
    IN  Deliver("content",
            IF Head(signals).is_end
            THEN cw
            ELSE IF cw.is_thinking
                 THEN append_to_current(start_message([ cw EXCEPT !.is_thinking = FALSE ],
                                                      "assistant"), text)
                 ELSE IF cw.current_message_widget = 0
                         \/ cw.messages[cw.current_message_widget].role # "assistant"
                      THEN append_to_current(start_message(cw, "assistant"), text)
                      ELSE append_to_current(cw, text))

on_tool_call ==
    Deliver("tool",
            IF Head(signals).result # "none"
            THEN add_message(chat_widget, "tool", Head(signals).result)
            ELSE chat_widget)

on_error ==
    Deliver("error", set_streaming_state(add_message(chat_widget, "assistant", "error"), FALSE))

on_request_finished ==
    Deliver("finished", set_streaming_state(chat_widget, FALSE))

-----------------------------------------------------------------------------
(* AIClient.chat_stream, run by AIStreamWorker.run. *)

\* the request body's messages
ClientPayload(msgs) == << [role |-> "system", content |-> "system_prompt"] >> \o msgs

\* the check of api_url, api_key and model
ChatStreamCheck(w) ==
    LET wk == workers[w] IN
    /\ wk.pc = "check"
    /\ IF env.cfg # "complete"
       THEN WorkerStep(w, [ Called(wk, << Sig("error", "config", FALSE, "none") >>)
                               EXCEPT !.pc = "return" ],
                       Emit(wk, signals, Sig("error", "config", FALSE, "none")))
       ELSE WorkerStep(w, [ wk EXCEPT !.pc = "post" ], signals)
    /\ UNCHANGED env

\* the state of a call whose request was posted
Posted(wk) ==
    [ wk EXCEPT !.nreq = @ + 1, !.payload = ClientPayload(wk.call_messages) ]

\* session.post returns a 2xx response
ChatStreamPost(w, s) ==
    LET wk == workers[w] IN
    /\ wk.pc = "post"
    /\ env.requests > 0
    /\ s \in env.scripts
    /\ WorkerStep(w, [ Posted(wk) EXCEPT !.pc = "lines",
                                         !.lines = ClientLines(s, w, wk.nreq + 1),
                                         !.response = ClientLines(s, w, wk.nreq + 1),
                                         !.calls_start = Len(wk.calls),
                                         !.tool_calls_buffer = <<>>,
                                         !.content_buffer = "", !.thinking_buffer = "",
                                         !.is_thinking = FALSE ],
                  signals)
    /\ env' = [env EXCEPT !.requests = @ - 1]

\* session.post or raise_for_status raises: on_error, and the call returns
ChatStreamRefused(w) ==
    LET wk == workers[w] IN
    /\ wk.pc = "post"
    /\ env.requests > 0
    /\ env.refuses
    /\ WorkerStep(w, [ Called(Posted(wk), << Sig("error", "network", FALSE, "none") >>)
                          EXCEPT !.pc = "return" ],
                  Emit(wk, signals, Sig("error", "network", FALSE, "none")))
    /\ env' = [env EXCEPT !.requests = @ - 1]

\* index in tool_calls_buffer: the position of the entry of `index`, or 0
BufferPos(buffer, index) ==
    IF \E i \in 1..Len(buffer) : buffer[i].index = index
    THEN CHOOSE i \in 1..Len(buffer) : buffer[i].index = index
    ELSE 0

\* one tc of delta['tool_calls']
BufferOne(buffer, tc) ==
    LET created == IF BufferPos(buffer, tc.index) = 0
                   THEN Append(buffer, [ index |-> tc.index, id |-> tc.id, type |-> "function",
                                         function |-> [name |-> "", arguments |-> ""] ])
                   ELSE buffer
        i == BufferPos(created, tc.index)
    IN  [ created EXCEPT ![i].function.name = @ \o tc.name,
                         ![i].function.arguments = @ \o tc.arguments ]

RECURSIVE BufferAll(_, _)
BufferAll(buffer, tcs) ==
    IF tcs = <<>> THEN buffer ELSE BufferAll(BufferOne(buffer, Head(tcs)), Tail(tcs))

\* delta.get('reasoning_content') or delta.get('reasoning'), read only when
\* is_reasoning_model is set
Reasoning(delta) == IF env.is_reasoning_model THEN delta.reasoning_content ELSE ""

\* a parsed chunk: the reasoning, the content and the tool calls of its delta;
\* the record after it and the queue after its callbacks
ChunkThinking(wk, delta) ==
    IF Reasoning(delta) # ""
    THEN [ wk EXCEPT !.is_thinking = TRUE,
                     !.thinking_buffer = (IF wk.is_thinking THEN @ ELSE "")
                                            \o delta.reasoning_content ]
    ELSE wk

ChunkContent(wk, delta) ==
    IF delta.content # ""
    THEN [ wk EXCEPT !.is_thinking = IF wk.is_thinking /\ wk.thinking_buffer # ""
                                     THEN FALSE ELSE @,
                     !.content_buffer = @ \o delta.content ]
    ELSE wk

\* the callbacks a chunk invokes, in order
ChunkCalls(wk, delta) ==
    LET c1 == IF Reasoning(delta) # ""
              THEN << Sig("thinking", Reasoning(delta), FALSE, "none") >>
              ELSE << >>
        wk1 == ChunkThinking(wk, delta)
        c2 == IF delta.content # "" /\ wk1.is_thinking /\ wk1.thinking_buffer # ""
              THEN Append(c1, Sig("thinking", "", TRUE, "none"))
              ELSE c1
    IN  IF delta.content # ""
        THEN Append(c2, Sig("content", delta.content, FALSE, "none"))
        ELSE c2

ChunkSignals(wk, q, delta) == IF wk._is_running THEN q \o ChunkCalls(wk, delta) ELSE q

ConsumeChunk(wk, delta) ==
    [ Called(ChunkContent(ChunkThinking(wk, delta), delta), ChunkCalls(wk, delta))
        EXCEPT !.tool_calls_buffer = BufferAll(@, delta.tool_calls) ]

\* a handler of json.JSONDecodeError that leaves the loop
SkippedBreaks(wk) == [ wk EXCEPT !.lines = << >> ]

\* except json.JSONDecodeError: continue
Skipped(wk) == wk

\* a sentinel after which the loop goes on reading
AtSentinelContinues(wk) == wk

\* if data == '[DONE]': break
AtSentinel(wk) == [ wk EXCEPT !.pc = "end" ]

\* one pass of `for line in response.iter_lines()`, or its end
ChatStreamLine(w) ==
    LET wk == workers[w] IN
    /\ wk.pc = "lines"
    /\ IF wk.lines = <<>>
       THEN WorkerStep(w, [ wk EXCEPT !.pc = "end" ], signals)
       ELSE LET line == Head(wk.lines)
                rest == [ wk EXCEPT !.lines = Tail(@) ]
            IN  CASE line.kind = "blank"     -> WorkerStep(w, rest, signals)
                  [] line.kind = "done"      -> WorkerStep(w, AtSentinel(rest), signals)
                  [] line.kind = "malformed" -> WorkerStep(w, Skipped(rest), signals)
                  [] line.kind = "chunk"     ->
                        WorkerStep(w, ConsumeChunk(rest, line.delta),
                                   ChunkSignals(wk, signals, line.delta))
    /\ UNCHANGED env

\* after the loop: the end marks, then the tool calls if there are any
ChatStreamEnd(w) ==
    LET wk == workers[w]
        q == Emit(wk, Emit(wk, signals, Sig("content", "", TRUE, "none")),
                  Sig("thinking", "", TRUE, "none"))
    IN
    /\ wk.pc = "end"
    /\ WorkerStep(w, [ Called(wk, << Sig("content", "", TRUE, "none"),
                                     Sig("thinking", "", TRUE, "none") >>)
                          EXCEPT !.pc = IF wk.tool_calls_buffer # <<>> THEN "dispatch"
                                        ELSE "return" ], q)
    /\ UNCHANGED env

\* params = json.loads(arguments) if arguments else {}, and {} when it raises:
\* "{}" stands for the empty object
ClientParams(arguments) ==
    IF arguments = "" THEN "{}"
    ELSE IF JsonParses(arguments) THEN arguments ELSE "{}"

\* follow_up_messages
FollowUp(wk, tc, result) ==
    wk.call_messages \o
    << [ role |-> "assistant", content |-> wk.content_buffer,
         tool_calls |-> << [ id |-> tc.id, type |-> "function",
                             function |-> [ name |-> tc.function.name,
                                            arguments |-> tc.function.arguments ] ] >> ],
       [ role |-> "tool", tool_call_id |-> tc.id, content |-> Dumps(result) ] >>

\* the first pass of `for tc in tool_calls_buffer.values()`: the call is executed,
\* chat_stream calls itself with the follow-up messages, and returns after it
ChatStreamDispatch(w, outcome) ==
    LET wk == workers[w]
        tc == wk.tool_calls_buffer[1]
        result == ResultOf(outcome)
        q == Emit(wk, Emit(wk, signals, Sig("tool", tc.function.name, FALSE, "none")),
                  Sig("tool", tc.function.name, FALSE, outcome))
    IN
    /\ wk.pc = "dispatch"
    /\ outcome \in env.outcomes
    /\ WorkerStep(w, [ Called(wk, << Sig("tool", tc.function.name, FALSE, "none"),
                                     Sig("tool", tc.function.name, FALSE, outcome) >>)
                          EXCEPT !.pc = "check",
                                 !.call_messages = FollowUp(wk, tc, result),
                                 !.execlog = Append(@, [ id |-> tc.id, name |-> tc.function.name,
                                                         arguments |-> tc.function.arguments,
                                                         params |-> ClientParams(tc.function.arguments) ]) ],
                  q)
    /\ UNCHANGED env

\* chat_stream has returned: run's finally emits finished_signal
WorkerFinish(w) ==
    LET wk == workers[w] IN
    /\ wk.pc = "return"
    /\ WorkerStep(w, [ wk EXCEPT !.state = "finished" ],
                  Append(signals, Sig("finished", "", TRUE, "none")))
    /\ UNCHANGED env

\* the system ends a thread that QThread.terminate() was called on
WorkerKilled(w) ==
    /\ workers[w].state = "dying"
    /\ workers' = [workers EXCEPT ![w].state = "terminated"]
    /\ UNCHANGED <<signals, chat_widget, env, window>>

NextClient ==
    \/ \E text \in Messages : on_send_clicked(text)
    \/ on_stop_requested
    \/ on_thinking
    \/ on_content
    \/ on_tool_call
    \/ on_error
    \/ on_request_finished
    \/ \E w \in DOMAIN workers : ChatStreamCheck(w)
    \/ \E w \in DOMAIN workers, s \in ClientScriptNames : ChatStreamPost(w, s)
    \/ \E w \in DOMAIN workers : ChatStreamRefused(w)
    \/ \E w \in DOMAIN workers : ChatStreamLine(w)
    \/ \E w \in DOMAIN workers : ChatStreamEnd(w)
    \/ \E w \in DOMAIN workers, outcome \in ExecOutcomes : ChatStreamDispatch(w, outcome)
    \/ \E w \in DOMAIN workers : WorkerFinish(w)
    \/ \E w \in DOMAIN workers : WorkerKilled(w)

SpecClient == InitClient /\ [][NextClient]_vars

-----------------------------------------------------------------------------
(* The dialog under fair scheduling: a started worker runs on, every request   *)
(* returns or raises, and the Qt event loop delivers the emitted signals.       *)

\* session.post raises because the provider answers no more
ChatStreamExhausted(w) ==
    LET wk == workers[w] IN
    /\ wk.pc = "post"
    /\ env.requests = 0
    /\ WorkerStep(w, [ Called(Posted(wk), << Sig("error", "network", FALSE, "none") >>)
                          EXCEPT !.pc = "return" ],
                  Emit(wk, signals, Sig("error", "network", FALSE, "none")))
    /\ UNCHANGED env

\* a step of worker w
WorkerNext(w) ==
    \/ ChatStreamCheck(w)
    \/ \E s \in ClientScriptNames : ChatStreamPost(w, s)
    \/ ChatStreamRefused(w)
    \/ ChatStreamExhausted(w)
    \/ ChatStreamLine(w)
    \/ ChatStreamEnd(w)
    \/ \E outcome \in ExecOutcomes : ChatStreamDispatch(w, outcome)
    \/ WorkerFinish(w)
    \/ WorkerKilled(w)

NextClientLive ==
    \/ NextClient
    \/ \E w \in DOMAIN workers : ChatStreamExhausted(w)

\* the operating system schedules the worker threads; the event loop delivers
\* the signals in order
FairnessClient ==
    /\ WF_vars(\E w \in DOMAIN workers : WorkerNext(w))
    /\ WF_vars(on_thinking)
    /\ WF_vars(on_content)
    /\ WF_vars(on_tool_call)
    /\ WF_vars(on_error)
    /\ WF_vars(on_request_finished)

SpecClientLive == InitClient /\ [][NextClientLive]_vars /\ FairnessClient

-----------------------------------------------------------------------------
(* Properties of AIChatWindow. *)

Threads == DOMAIN threads
Running(t) == threads[t].pc # "done"
\* the loop of thread t is between rounds or over
AtRoundBoundary(t) == threads[t].pc \in {"loop", "done"}

IsAssistantWithCall(msg, id) ==
    /\ msg.role = "assistant"
    /\ "tool_calls" \in DOMAIN msg
    /\ \E e \in 1..Len(msg.tool_calls) : msg.tool_calls[e].id = id

\* the assistant messages before position i of chat_history that announce call id
EarlierAnnouncements(i, id) ==
    { j \in 1..(i - 1) : IsAssistantWithCall(chat_history[j], id) }

\* C1: whenever every loop is between rounds, each tool message of chat_history
\* has exactly one assistant message at an earlier position whose tool_calls
\* holds the tool message's tool_call_id.
C1_ToolMessagesAnnounced ==
    (\A t \in Threads : AtRoundBoundary(t)) =>
        \A i \in 1..Len(chat_history) :
            chat_history[i].role = "tool" =>
                Cardinality(EarlierAnnouncements(i, chat_history[i].tool_call_id)) = 1

\* C2: a thread whose turn was stopped while it was consuming a stream appends
\* nothing to chat_history afterwards.
C2_StopLeavesHistory ==
    [][ \A t \in Threads :
          (threads[t].stopped = "stream" /\ threads'[t] # threads[t])
              => chat_history' = chat_history ]_vars

\* C3: once its turn was stopped, a thread opens no further request, and, unless
\* the stop came while it was already dispatching, invokes the executor no more.
C3_NoWorkAfterStop ==
    [][ \A t \in Threads :
          threads[t].stopped # "no" =>
              /\ threads'[t].nreq = threads[t].nreq
              /\ threads[t].stopped # "dispatch" => threads'[t].execlog = threads[t].execlog ]_vars

\* C4: at most one _run_ai_stream thread is executing at any time.
C4_SingleTask == Cardinality({ t \in Threads : Running(t) }) <= 1

\* C5: no turn issues more than max_iterations requests.
C5_RoundsBounded == \A t \in Threads : threads[t].nreq <= max_iterations

\* a turn in which every response carried a tool call ran into the limit
C5_Witness ==
    \E t \in Threads :
        /\ threads[t].exit = "limit"
        /\ threads[t].nreq = max_iterations
        /\ Len(threads[t].execlog) = max_iterations

\* the event a turn posts when it completes without tool calls
NormalCompletionEvent == OnStreamComplete(NewThread).sink[1]

\* C7: a turn that ends at the round limit reports it with an event other than
\* the one of a normal completion.
C7_TruncationEventDedicated ==
    \A t \in Threads :
        threads[t].exit = "limit" =>
            threads[t].sink[Len(threads[t].sink)] # NormalCompletionEvent

\* the results a tool message can carry, and the one its text encodes
Results ==
    { ResultOf(outcome) : outcome \in ExecOutcomes }
        \cup { [success |-> FALSE, message |-> "parse_error"] }
Loads(text) == CHOOSE result \in Results : Dumps(result) = text

\* the messages thread record th appended in its current round
RoundAppended(th) == SubSeq(th.appended, th.round_start + 1, Len(th.appended))
ToolIds(msgs) == [ i \in 1..Len(msgs) |-> msgs[i].tool_call_id ]
CallIds(entries) == [ i \in 1..Len(entries) |-> entries[i].id ]
RoundToolMessages(th) == SelectSeq(RoundAppended(th), LAMBDA m : m.role = "tool")
\* the calls of the round the for loop has passed
Passed(th) == { i \in 1..Len(th.tool_calls_data) : i < th.k }
Occurrences(seq, x) == Cardinality({ i \in 1..Len(seq) : seq[i] = x })
IsSuffix(a, b) == Len(a) <= Len(b) /\ SubSeq(b, Len(b) - Len(a) + 1, Len(b)) = a

\* C10: a call with a name whose argument text does not parse is not executed,
\* gets exactly one tool message with success false and stays in the round's
\* tool_calls; the tool messages of a round and its tool_calls carry the same
\* ids, each once and in the same order, and the round's assistant message
\* carries exactly those tool_calls.
C10_ParseFailureAcknowledged ==
    \A t \in Threads :
        LET th == threads[t] IN
        th.pc \in {"dispatch", "loop"} /\ th.iteration > 0 =>
            /\ \A i \in Passed(th) :
                 LET c == th.tool_calls_data[i] IN
                 (Finalized(c) /\ ~JsonParses(c.arguments)) =>
                     /\ \A x \in 1..Len(th.execlog) : th.execlog[x].id # c.id
                     /\ Occurrences(ToolIds(RoundToolMessages(th)), c.id) = 1
                     /\ \A m \in 1..Len(RoundAppended(th)) :
                          (RoundAppended(th)[m].role = "tool"
                             /\ RoundAppended(th)[m].tool_call_id = c.id)
                              => Loads(RoundAppended(th)[m].content).success = FALSE
                     /\ Occurrences(CallIds(th.tool_calls_for_history), c.id) = 1
            /\ ToolIds(RoundToolMessages(th)) = CallIds(th.tool_calls_for_history)
            /\ \A x \in 1..Len(th.tool_calls_for_history) :
                 Occurrences(CallIds(th.tool_calls_for_history),
                             th.tool_calls_for_history[x].id) = 1
            /\ (th.pc = "loop" /\ th.tool_calls_for_history # <<>>) =>
                 LET last == RoundAppended(th)[Len(RoundAppended(th))] IN
                 /\ last.role = "assistant"
                 /\ last.tool_calls = th.tool_calls_for_history
                 /\ Len(RoundAppended(th)) = Len(th.tool_calls_for_history) + 1
            /\ env.kind = "provider" => IsSuffix(RoundAppended(th), chat_history)

\* a round in which one call failed to parse and another was executed is over
C10_Witness ==
    \E t \in Threads :
        LET th == threads[t] IN
        /\ th.pc = "loop"
        /\ Len(th.tool_calls_for_history) = 2
        /\ \E i \in Passed(th) :
             Finalized(th.tool_calls_data[i]) /\ ~JsonParses(th.tool_calls_data[i].arguments)
        /\ Len(th.execlog) = 1

\* the loop of thread record th is in a round's dispatch or has just ended one
InRound(th) == th.pc \in {"dispatch", "loop"} /\ th.iteration > 0

\* C11: every call the for loop has dispatched (name and argument text both
\* non-empty) has exactly one tool message with its id among the round's
\* messages, whatever the executor did; a call whose execution raised has a
\* message with success false, and the calls after it are dispatched as well.
C11_EveryDispatchAnswered ==
    \A t \in Threads :
        LET th == threads[t] IN
        /\ InRound(th) =>
             \A i \in Passed(th) :
                 LET c == th.tool_calls_data[i] IN
                 (c.name # "" /\ c.arguments # "") =>
                     Occurrences(ToolIds(RoundToolMessages(th)), c.id) = 1
        /\ \A x \in 1..Len(th.execlog) :
             /\ \E m \in 1..Len(th.appended) :
                  /\ th.appended[m].role = "tool"
                  /\ th.appended[m].tool_call_id = th.execlog[x].id
                  /\ Loads(th.appended[m].content).success = (th.execlog[x].outcome = "ok")
             /\ \A m \in 1..Len(th.appended) :
                  (th.appended[m].role = "tool"
                     /\ th.appended[m].tool_call_id = th.execlog[x].id
                     /\ th.execlog[x].outcome = "raise")
                      => Loads(th.appended[m].content).success = FALSE

\* a round is over in which the first call's execution raised and the second
\* call was executed after it, each with its tool message
C11_Witness ==
    \E t \in Threads :
        LET th == threads[t] IN
        /\ th.pc = "loop"
        /\ Len(th.execlog) = 2
        /\ th.execlog[1].outcome = "raise"
        /\ th.execlog[2].outcome = "fail"
        /\ Len(RoundToolMessages(th)) = 2

\* the invocations of the executor, in th's turn, for call c
Invocations(th, c) ==
    { x \in 1..Len(th.execlog) :
        /\ th.execlog[x].id = c.id
        /\ th.execlog[x].name = c.name
        /\ th.execlog[x].arguments = c.arguments }

\* C12: every call with a name and argument text that parses, once the for loop
\* has passed it, has been given to the executor exactly once in the turn, and
\* no call of the turn is given to it twice.
C12_ExecutedExactlyOnce ==
    \A t \in Threads :
        LET th == threads[t] IN
        /\ \A x, y \in 1..Len(th.execlog) : x # y => th.execlog[x].id # th.execlog[y].id
        /\ InRound(th) =>
             \A i \in Passed(th) :
                 LET c == th.tool_calls_data[i] IN
                 (c.name # "" /\ JsonParses(c.arguments)) =>
                     Cardinality(Invocations(th, c)) = 1

\* a turn of two rounds, the first with two calls, the second with one, all executed
C12_Witness ==
    \E t \in Threads :
        /\ threads[t].pc = "loop"
        /\ threads[t].nreq = 2
        /\ Len(threads[t].execlog) = 3

\* C14: the step in which a thread builds and sends a request leaves every
\* stored message of chat_history as it was, and the messages built again from
\* the history after the step are the messages that were sent.
C14_BuildLeavesHistory ==
    [][ \A t \in Threads :
          threads'[t].nreq > threads[t].nreq =>
              /\ chat_history' = chat_history
              /\ BuildMessages(chat_history') = threads'[t].messages ]_vars

\* a request was sent whose messages complete a stored assistant message that
\* has tool_calls and no content
C14_Witness ==
    \E t \in Threads :
        /\ threads[t].pc = "stream"
        /\ \E i \in 1..Len(chat_history) :
             /\ i + 1 <= Len(threads[t].messages)
             /\ "tool_calls" \in DOMAIN chat_history[i]
             /\ "content" \notin DOMAIN chat_history[i]
             /\ "content" \in DOMAIN threads[t].messages[i + 1]
             /\ threads[t].messages[i + 1].tool_calls = chat_history[i].tool_calls

\* the messages of msgs with role r
WithRole(msgs, r) == SelectSeq(msgs, LAMBDA m : m.role = r)

ErrorExits == {"no_openai", "no_config", "request_failed"}

\* C18: a turn that stop_streaming was called for posts no error event.
C18_NoErrorAfterStop ==
    \A t \in Threads : threads[t].stopped # "no" => threads[t].exit \notin ErrorExits

\* a round of th is over and the turn did not end with an error
RoundOver(th) ==
    /\ th.pc \in {"loop", "done"}
    /\ th.iteration > 0
    /\ th.exit \notin ErrorExits

\* the entries of tool_calls_data whose name or argument text is empty
Unfinished(th) ==
    { i \in 1..Len(th.tool_calls_data) :
        th.tool_calls_data[i].name = "" \/ th.tool_calls_data[i].arguments = "" }

\* C19: when a round ends with no finalized tool call, the round has appended
\* exactly one assistant message, holding its content and reasoning, and the
\* turn is complete: no further request follows.
C19_PlainRoundCompletes ==
    \A t \in Threads :
        LET th == threads[t] IN
        (RoundOver(th) /\ Unfinished(th) = 1..Len(th.tool_calls_data)) =>
            /\ RoundAppended(th) = << PlainAssistant(th) >>
            /\ th.pc = "done"
            /\ th.exit = "no_tools"

\* the events of kind e among those th has posted in its current round
RoundEvents(th, e) ==
    SelectSeq(SubSeq(th.sink, th.sink_start + 1, Len(th.sink)), LAMBDA v : v.ev = e)

\* C20: an entry of tool_calls_data whose name or argument text is empty is
\* passed over in silence: no execution, no tool message and no tool_calls entry
\* carry its id, and the round's tool messages, tool_calls entries, tool-call
\* and tool-result events are those of the other entries alone, with no error
\* event.
C20_UnfinishedDropped ==
    \A t \in Threads :
        LET th == threads[t]
            dropped == Passed(th) \cap Unfinished(th)
            kept == Passed(th) \ Unfinished(th)
        IN  InRound(th) =>
            /\ \A i \in dropped :
                 LET c == th.tool_calls_data[i] IN
                 /\ \A x \in 1..Len(th.execlog) : th.execlog[x].id # c.id
                 /\ Occurrences(ToolIds(RoundToolMessages(th)), c.id) = 0
                 /\ Occurrences(CallIds(th.tool_calls_for_history), c.id) = 0
            /\ Len(RoundToolMessages(th)) = Cardinality(kept)
            /\ Len(th.tool_calls_for_history) = Cardinality(kept)
            /\ Len(RoundEvents(th, "tool_result")) = Cardinality(kept)
            /\ Len(RoundEvents(th, "tool_call")) =
                   Cardinality({ i \in kept : JsonParses(th.tool_calls_data[i].arguments) })
            /\ RoundEvents(th, "stream_error") = << >>

\* a round is over whose response held a call with a name and no argument text
C20_Witness ==
    \E t \in Threads :
        LET th == threads[t] IN
        /\ th.pc = "loop"
        /\ th.iteration > 0
        /\ \E i \in Passed(th) :
             th.tool_calls_data[i].name # "" /\ th.tool_calls_data[i].arguments = ""

-----------------------------------------------------------------------------
(* Properties of AIClient.chat_stream and AIAssistantDialog. *)

Workers == DOMAIN workers

\* C6: chat_stream issues at most the fixed maximum of requests for one turn.
C6_ClientRequestsBounded == \A w \in Workers : workers[w].nreq <= max_iterations

\* C8: once on_stop_requested has cancelled the turn of the current worker, the
\* list get_messages_for_api returns is the list that was sent at the start of
\* that turn: no stop marker, no partly streamed assistant text.
C8_StopLeavesApiMessages ==
    (workers # <<>> /\ ~workers[Len(workers)]._is_running) =>
        get_messages_for_api(chat_widget) = workers[Len(workers)].messages

\* the tool messages among msgs whose call, announced in msgs, has argument text
\* that does not parse
UnparsedToolMessages(msgs) ==
    { i \in 1..Len(msgs) :
        /\ msgs[i].role = "tool"
        /\ \E j \in 1..Len(msgs) :
             /\ "tool_calls" \in DOMAIN msgs[j]
             /\ \E e \in 1..Len(msgs[j].tool_calls) :
                  /\ msgs[j].tool_calls[e].id = msgs[i].tool_call_id
                  /\ ~JsonParses(msgs[j].tool_calls[e].function.arguments) }

\* C9: the executor is invoked only with argument text that parses as JSON, and
\* a call whose text does not parse gets no tool message, in _stream_ai_response
\* and in chat_stream.
C9_OnlyParsedCallsDispatched ==
    /\ \A t \in Threads :
         /\ \A x \in 1..Len(threads[t].execlog) : JsonParses(threads[t].execlog[x].arguments)
         /\ UnparsedToolMessages(threads[t].appended) = {}
    /\ \A w \in Workers :
         /\ \A x \in 1..Len(workers[w].execlog) : JsonParses(workers[w].execlog[x].arguments)
         /\ UnparsedToolMessages(workers[w].call_messages) = {}

\* C13: once chat_stream has dispatched the tool calls of a response and calls
\* itself, every call of the tool-call buffer has been executed exactly once and
\* its result is among the messages of the follow-up request.
C13_EveryBufferedCallExecuted ==
    \A w \in Workers :
        LET wk == workers[w] IN
        (wk.pc \in {"check", "post"} /\ wk.tool_calls_buffer # <<>>) =>
            \A i \in 1..Len(wk.tool_calls_buffer) :
                /\ Cardinality({ x \in 1..Len(wk.execlog) :
                                   wk.execlog[x].id = wk.tool_calls_buffer[i].id }) = 1
                /\ \E m \in 1..Len(wk.call_messages) :
                     /\ wk.call_messages[m].role = "tool"
                     /\ wk.call_messages[m].tool_call_id = wk.tool_calls_buffer[i].id

\* an assistant message with tool_calls carries content and, for a reasoning
\* model, reasoning_content
CompleteForWire(msg, reasoning) ==
    (msg.role = "assistant" /\ "tool_calls" \in DOMAIN msg /\ msg.tool_calls # <<>>) =>
        /\ "content" \in DOMAIN msg
        /\ reasoning => "reasoning_content" \in DOMAIN msg

\* C15: in every request payload, of _stream_ai_response and of chat_stream, each
\* assistant message with non-empty tool_calls has a content field and, when the
\* model is a reasoning model, a reasoning_content field.
C15_ToolCallMessagesComplete ==
    /\ \A t \in Threads : \A i \in 1..Len(threads[t].messages) :
         CompleteForWire(threads[t].messages[i], TRUE)
    /\ \A w \in Workers : \A i \in 1..Len(workers[w].payload) :
         CompleteForWire(workers[w].payload[i], env.is_reasoning_model)

\* the texts on_content was given, among the callbacks `calls`
ContentTexts(calls) ==
    LET kept == SelectSeq(calls, LAMBDA c : c.sig = "content" /\ ~c.is_end)
    IN  [ i \in 1..Len(kept) |-> kept[i].text ]

\* the content of the valid lines of a response up to the sentinel, in order
RECURSIVE ValidContent(_)
ValidContent(lines) ==
    IF lines = << >> \/ Head(lines).kind = "done" THEN << >>
    ELSE IF Head(lines).kind = "chunk" /\ Head(lines).delta.content # ""
         THEN << Head(lines).delta.content >> \o ValidContent(Tail(lines))
         ELSE ValidContent(Tail(lines))

\* the callbacks invoked since the last response began
ResponseCalls(wk) == SubSeq(wk.calls, wk.calls_start + 1, Len(wk.calls))

\* C17: when chat_stream has read a response that held lines json.loads
\* rejects, on_content was given the content of every valid line up to the
\* sentinel, in order, and on_error was not invoked.
C17_MalformedLineSkipped ==
    \A w \in Workers :
        LET wk == workers[w] IN
        (wk.pc = "end" /\ \E i \in 1..Len(wk.response) : wk.response[i].kind = "malformed") =>
            /\ ContentTexts(ResponseCalls(wk)) = ValidContent(wk.response)
            /\ \A c \in 1..Len(ResponseCalls(wk)) : ResponseCalls(wk)[c].sig # "error"

\* a response with two malformed lines, each followed by a valid one, was read
C17_Witness ==
    \E w \in Workers :
        /\ workers[w].pc = "end"
        /\ \E i \in 1..Len(workers[w].response) : workers[w].response[i].kind = "malformed"
        /\ ContentTexts(ResponseCalls(workers[w])) = << "a", "b" >>

-----------------------------------------------------------------------------
(* Properties of the two assemblers of tool calls. *)

\* the tool-call fragments of a sequence of deltas, in arrival order
RECURSIVE AllFragments(_)
AllFragments(deltas) ==
    IF deltas = << >> THEN << >>
    ELSE Head(deltas).tool_calls \o AllFragments(Tail(deltas))

\* the name fragments addressed to `index`, concatenated
RECURSIVE NameOf(_, _)
NameOf(fragments, index) ==
    IF fragments = << >> THEN ""
    ELSE (IF Head(fragments).index = index THEN Head(fragments).name ELSE "")
             \o NameOf(Tail(fragments), index)

\* the argument fragments addressed to `index`, concatenated
RECURSIVE ArgumentsOf(_, _)
ArgumentsOf(fragments, index) ==
    IF fragments = << >> THEN ""
    ELSE (IF Head(fragments).index = index THEN Head(fragments).arguments ELSE "")
             \o ArgumentsOf(Tail(fragments), index)

\* the deltas of the response thread t is working on
ServedDeltas(t) ==
    Instantiate(threads[t].served[Len(threads[t].served)], t, threads[t].iteration)

\* the deltas of the chunk lines chat_stream reads from a response: those before
\* the sentinel
RECURSIVE ReadDeltas(_)
ReadDeltas(lines) ==
    IF lines = << >> \/ Head(lines).kind = "done" THEN << >>
    ELSE IF Head(lines).kind = "chunk"
         THEN << Head(lines).delta >> \o ReadDeltas(Tail(lines))
         ELSE ReadDeltas(Tail(lines))

\* C21: when a response has been consumed, the name and the argument text
\* assembled for each index are the concatenations, in arrival order, of the
\* name fragments and of the argument fragments addressed to that index, in
\* _stream_ai_response and in chat_stream.
C21_FragmentsConcatenated ==
    /\ \A t \in Threads :
         threads[t].pc = "dispatch" =>
             \A i \in 1..Len(threads[t].tool_calls_data) :
                 /\ threads[t].tool_calls_data[i].name =
                        NameOf(AllFragments(ServedDeltas(t)), i - 1)
                 /\ threads[t].tool_calls_data[i].arguments =
                        ArgumentsOf(AllFragments(ServedDeltas(t)), i - 1)
    /\ \A w \in Workers :
         workers[w].pc \in {"end", "dispatch"} =>
             \A i \in 1..Len(workers[w].tool_calls_buffer) :
                 LET e == workers[w].tool_calls_buffer[i] IN
                 /\ e.function.name =
                        NameOf(AllFragments(ReadDeltas(workers[w].response)), e.index)
                 /\ e.function.arguments =
                        ArgumentsOf(AllFragments(ReadDeltas(workers[w].response)), e.index)

\* the position in the stream of the first fragment addressed to `index`
FirstSeen(fragments, index) ==
    CHOOSE p \in 1..Len(fragments) :
        /\ fragments[p].index = index
        /\ \A q \in 1..(p - 1) : fragments[q].index # index

\* the index whose assembled call carries the id `id`, in thread t's round
IndexOfId(t, id) ==
    (CHOOSE i \in 1..Len(threads[t].tool_calls_data) :
         threads[t].tool_calls_data[i].id = id) - 1

\* the executions of thread t that belong to the round it is in
RoundExecutions(t) ==
    { x \in 1..Len(threads[t].execlog) :
        \E i \in 1..Len(threads[t].tool_calls_data) :
            threads[t].tool_calls_data[i].id = threads[t].execlog[x].id }

\* C22: the tool calls of a round are executed in the order in which their
\* indices were first observed in the stream.
C22_DispatchInObservedOrder ==
    \A t \in Threads :
        InRound(threads[t]) =>
            \A x, y \in RoundExecutions(t) :
                x < y =>
                    FirstSeen(AllFragments(ServedDeltas(t)),
                              IndexOfId(t, threads[t].execlog[x].id))
                  < FirstSeen(AllFragments(ServedDeltas(t)),
                              IndexOfId(t, threads[t].execlog[y].id))

\* what thread record th did in its current round, in order
RoundTrace(th) == SubSeq(th.trace, th.trace_start + 1, Len(th.trace))

\* C23: in a round, every executor invocation is followed by the tool-result
\* event of the call and then by the append of its tool message, every tool
\* message follows the tool-result event of its call, and the assistant message
\* carrying tool_calls, the round's content and reasoning is appended once,
\* after the for loop has passed every call of the round.
C23_DispatchStepsOrdered ==
    \A t \in Threads :
        LET th == threads[t]
            tr == RoundTrace(th)
        IN  InRound(th) =>
              /\ \A x \in 1..Len(tr) :
                   /\ tr[x].op = "execute" =>
                        /\ x + 2 <= Len(tr)
                        /\ tr[x + 1] = [op |-> "tool_result", id |-> tr[x].id]
                        /\ tr[x + 2] = [op |-> "append_tool", id |-> tr[x].id]
                   /\ tr[x].op = "append_tool" =>
                        /\ x > 1
                        /\ tr[x - 1] = [op |-> "tool_result", id |-> tr[x].id]
                   /\ tr[x].op = "append_assistant" =>
                        /\ x = Len(tr)
                        /\ th.pc = "loop"
                        /\ th.k > Len(th.tool_calls_data)
                        /\ LET m == th.appended[Len(th.appended)] IN
                           /\ m.role = "assistant"
                           /\ m.tool_calls = th.tool_calls_for_history
                           /\ m.reasoning_content = th.full_reasoning
                           /\ IF th.full_content = "" THEN "content" \notin DOMAIN m
                              ELSE m.content = th.full_content
              /\ (th.pc = "loop" /\ \E x \in 1..Len(tr) : tr[x].op = "execute")
                     => tr[Len(tr)].op = "append_assistant"

C23_Witness ==
    \E t \in Threads :
        LET th == threads[t]
            tr == RoundTrace(th)
        IN  /\ th.pc = "loop"
            /\ Len(tr) = 7
            /\ tr[1].op = "execute"
            /\ tr[4].op = "execute"
            /\ tr[7].op = "append_assistant"
            /\ th.full_content # ""
            /\ th.full_reasoning # ""

-----------------------------------------------------------------------------
(* Properties of a failing request. *)

\* the step in which thread t sent a request that no stream answered
RequestFailed(t) ==
    /\ threads'[t].nreq = threads[t].nreq + 1
    /\ threads'[t].pc # "stream"

\* the step in which worker w posted a request that no response answered
PostFailed(w) ==
    /\ workers'[w].nreq = workers[w].nreq + 1
    /\ workers'[w].pc # "lines"

\* C24: a request that fails to open posts exactly one error event and ends
\* the turn's work: the thread (the chat_stream call) does nothing afterwards,
\* so no further request and no tool execution, and the failing round and the
\* handling of its error event leave the conversation as it was: chat_history
\* in the window, the list chat_stream was called with and the messages the
\* dialog sends with the next turn.
C24_FailedRequestEndsTurn ==
    [][ /\ \A t \in Threads :
             /\ RequestFailed(t) =>
                  /\ threads'[t].pc = "done"
                  /\ threads'[t].exit = "request_failed"
                  /\ threads'[t].sink = Append(threads[t].sink, Ev("stream_error", "", "", FALSE))
                  /\ threads'[t].execlog = threads[t].execlog
                  /\ threads'[t].appended = threads[t].appended
                  /\ chat_history' = chat_history
                  /\ queue' = Append(queue, Invocation("_handle_stream_error", t))
             /\ threads[t].exit = "request_failed" => threads'[t] = threads[t]
        /\ (queue # << >> /\ queue' = Tail(queue) /\ Head(queue).slot = "_handle_stream_error")
               => chat_history' = chat_history
        /\ \A w \in Workers :
             /\ PostFailed(w) =>
                  /\ workers'[w].pc = "return"
                  /\ workers'[w].calls =
                         Append(workers[w].calls, Sig("error", "network", FALSE, "none"))
                  /\ workers'[w].execlog = workers[w].execlog
                  /\ workers'[w].call_messages = workers[w].call_messages
                  /\ workers'[w].messages = workers[w].messages
             /\ workers[w].pc = "return" =>
                  /\ workers'[w].nreq = workers[w].nreq
                  /\ workers'[w].execlog = workers[w].execlog
                  /\ workers'[w].calls = workers[w].calls
                  /\ workers'[w].call_messages = workers[w].call_messages
        /\ (signals # << >> /\ signals' = Tail(signals) /\ Head(signals) = Sig("error", "network", FALSE, "none"))
               => get_messages_for_api(chat_widget') = get_messages_for_api(chat_widget)
      ]_vars

-----------------------------------------------------------------------------
(* Properties of the end of a response in chat_stream. *)

RECURSIVE Joined(_)
Joined(texts) == IF texts = << >> THEN "" ELSE Head(texts) \o Joined(Tail(texts))

\* the texts on_thinking was given, its end marks left out
ThinkingTexts(calls) ==
    LET kept == SelectSeq(calls, LAMBDA c : c.sig = "thinking" /\ ~c.is_end)
    IN  [ i \in 1..Len(kept) |-> kept[i].text ]

\* the reasoning of the valid lines of a response up to the sentinel, in order
RECURSIVE ValidReasoning(_)
ValidReasoning(lines) ==
    IF lines = << >> \/ Head(lines).kind = "done" THEN << >>
    ELSE IF Head(lines).kind = "chunk" /\ Head(lines).delta.reasoning_content # ""
         THEN << Head(lines).delta.reasoning_content >> \o ValidReasoning(Tail(lines))
         ELSE ValidReasoning(Tail(lines))

\* the number of lines of the response the loop has taken
LinesTaken(wk) == Len(wk.response) - Len(wk.lines)

\* the last line taken is the first sentinel of the response, or the response
\* is exhausted and holds no sentinel
ReadToTheEnd(wk) ==
    IF \E i \in 1..Len(wk.response) : wk.response[i].kind = "done"
    THEN /\ LinesTaken(wk) > 0
         /\ wk.response[LinesTaken(wk)].kind = "done"
         /\ \A i \in 1..(LinesTaken(wk) - 1) : wk.response[i].kind # "done"
    ELSE wk.lines = << >>

\* C25: once chat_stream has left the line loop, it has taken the lines up to
\* the first sentinel (or all of them when there is none) and no more: the
\* content buffer, the tool-call buffer and the tokens given to on_content and
\* on_thinking are those of the lines before the sentinel, and the dispatch of
\* the round's tool call happens only in that state.
C25_NothingAfterSentinel ==
    \A w \in Workers :
        LET wk == workers[w]
            before == AllFragments(ReadDeltas(wk.response))
        IN  wk.pc \in {"end", "dispatch"} =>
              /\ ReadToTheEnd(wk)
              /\ wk.content_buffer = Joined(ValidContent(wk.response))
              /\ ContentTexts(ResponseCalls(wk)) = ValidContent(wk.response)
              /\ ThinkingTexts(ResponseCalls(wk)) =
                     IF env.is_reasoning_model THEN ValidReasoning(wk.response) ELSE << >>
              /\ wk.thinking_buffer # "" => ValidReasoning(wk.response) # << >>
              /\ \A c \in 1..Len(ResponseCalls(wk)) : ResponseCalls(wk)[c].sig # "tool"
              /\ \A i \in 1..Len(wk.tool_calls_buffer) :
                     \E p \in 1..Len(before) : before[p].index = wk.tool_calls_buffer[i].index
              /\ \A p \in 1..Len(before) :
                     \E i \in 1..Len(wk.tool_calls_buffer) :
                         wk.tool_calls_buffer[i].index = before[p].index

\* a response with a chunk after its sentinel was read to the sentinel
C25_Witness ==
    \E w \in Workers :
        /\ workers[w].pc = "return"
        /\ workers[w].state = "finished"
        /\ Len(workers[w].response) = 3
        /\ workers[w].response[2].kind = "done"
        /\ workers[w].response[3].kind = "chunk"
        /\ Len(workers[w].lines) = 1
        /\ workers[w].content_buffer = "a"
        /\ workers[w].thinking_buffer = "r"
        /\ workers[w].execlog = << >>

-----------------------------------------------------------------------------
(* Properties of the content of a round. *)

\* the content tokens thread record th posted in its current round
RoundContent(th) ==
    LET events == RoundEvents(th, "content")
    IN  [ i \in 1..Len(events) |-> events[i].text ]

\* the text an assistant message carries
ContentOf(msg) == IF "content" \in DOMAIN msg THEN msg.content ELSE ""

\* C26: when the stream of a round is over, full_content is the concatenation,
\* in order, of the content tokens posted during that round, and the assistant
\* message appended for the round carries exactly that text, also in a round
\* that follows a round with content.
C26_RoundContentOnly ==
    \A t \in Threads :
        LET th == threads[t] IN
        (th.pc \in {"dispatch", "loop", "done"} /\ th.iteration > 0 /\ th.exit \notin ErrorExits) =>
            /\ th.full_content = Joined(RoundContent(th))
            /\ \A i \in 1..Len(RoundAppended(th)) :
                   RoundAppended(th)[i].role = "assistant" =>
                       ContentOf(RoundAppended(th)[i]) = Joined(RoundContent(th))

\* the second round of a turn has content, and so had the first
C26_Witness ==
    \E t \in Threads :
        LET th == threads[t] IN
        /\ th.pc = "done"
        /\ th.exit = "no_tools"
        /\ th.iteration = 2
        /\ th.full_content = "ab"
        /\ Len(th.appended) = 3
        /\ th.appended[2].role = "assistant"
        /\ ContentOf(th.appended[2]) = "c"
        /\ th.appended[3] = [role |-> "assistant", content |-> "ab", reasoning_content |-> ""]

-----------------------------------------------------------------------------
(* Properties of the stored history. *)

IsPrefix(a, b) == Len(a) <= Len(b) /\ SubSeq(b, 1, Len(a)) = a

\* the step is a run of clear_chat
Cleared == env'.clears < env.clears

\* C27: every step other than clear_chat leaves the stored history a prefix of
\* the history after it: messages are only appended, none is removed, moved or
\* changed in place.
C27_HistoryAppendOnly ==
    [][ Cleared \/ IsPrefix(chat_history, chat_history') ]_vars

\* a turn of max_iterations tool rounds has appended to the history, with no
\* clear_chat
C27_Witness ==
    /\ env.kind = "limit"
    /\ env.clears = MaxClears
    /\ Len(threads) = 1
    /\ threads[1].exit = "limit"
    /\ Len(chat_history) = 1 + 2 * max_iterations
    /\ chat_history[1].role = "user"

\* C30: chat_history is empty or begins with a user message, whatever the
\* interleaving of send_message, clear_chat and the thread's appends.
C30_HistoryBeginsWithUser ==
    chat_history = << >> \/ chat_history[1].role = "user"

-----------------------------------------------------------------------------
(* Properties of the end of a turn. *)

\* the thread of turn t has ended and is_streaming is false
TurnReset(t) == Len(threads) >= t /\ threads[t].pc = "done" /\ ~is_streaming

\* C28: every turn send_message has started leads to a state in which its
\* thread has ended and is_streaming is false, when the threads are scheduled,
\* every request returns or raises and the event loop runs what is queued.
C28_TurnResetsStreaming ==
    \A t \in 1..MaxTurns : (Len(threads) >= t) ~> TurnReset(t)

\* a turn that reached the round limit was reset by _finish_stream, the user
\* having stopped nothing
C28_Witness ==
    /\ env.kind = "limit"
    /\ env.stops = MaxStops
    /\ Len(threads) = 1
    /\ threads[1].exit = "limit"
    /\ queue = << >>
    /\ ~is_streaming

\* C29: whenever ChatWidget.is_streaming is true it eventually becomes false,
\* when the workers are scheduled, every request returns or raises and the event
\* loop delivers every signal.
C29_StreamingEventuallyFalse ==
    chat_widget.is_streaming ~> ~chat_widget.is_streaming

====
